---- MODULE Spec2Model ----
(***************************************************************************)
(* SolarSize Nigeria (solar_app_prototype.py): the four calculation        *)
(* functions, the static reference tables and the Streamlit session that   *)
(* drives them.  One action is one run of the script, started by one user  *)
(* interaction.                                                            *)
(*                                                                         *)
(* Numbers.  Python floats are modelled as exact rationals [n, d] in       *)
(* lowest terms with d > 0; float rounding error is not modelled.  round() *)
(* and np.ceil are modelled by what they compute on the exact value.       *)
(***************************************************************************)
EXTENDS Integers, Sequences, FiniteSets, TLC

VARIABLES
    appliances_data,     \* st.session_state.appliances_data, in insertion order
    page,                \* sidebar radio
    selected_appliances, \* state of the "Choose appliances" multiselect
    location,            \* Solar Sizing: "Select Your Location"
    autonomy_days,       \* Solar Sizing: "Battery Backup Days"
    max_budget,          \* Load Optimization: "Maximum Budget"
    selected_city,       \* Find Vendors: "Select City"
    service_type,        \* Find Vendors: "Service Type"
    outcome,             \* how the last script run ended
    sizing,              \* what the Solar Sizing page computed in the last run
    results,             \* Load Optimization: the rows of `results`
    best_scenario,       \* Load Optimization: the recommended row, or NoRow
    shown_vendors,       \* Find Vendors: the vendors listed
    call                 \* a direct call of one calculation function

vars == <<appliances_data, page, selected_appliances, location, autonomy_days,
          max_budget, selected_city, service_type, outcome, sizing, results,
          best_scenario, shown_vendors, call>>

-----------------------------------------------------------------------------
(* Exact rational arithmetic standing for Python float arithmetic.         *)

Abs(x) == IF x < 0 THEN -x ELSE x

RECURSIVE GCD(_, _)
GCD(a, b) == IF b = 0 THEN a ELSE GCD(b, a % b)

Over(n, d, g) == [n |-> n \div g, d |-> d \div g]

Rat(n, d) == Over(n, d, GCD(Abs(n), d))

RatInt(i) == [n |-> i, d |-> 1]

\* a + b and a * b, dividing by common factors before multiplying
AddOver(a, b, g) ==
    Rat(a.n * (b.d \div g) + b.n * (a.d \div g), (a.d \div g) * b.d)

RatAdd(a, b) == AddOver(a, b, GCD(a.d, b.d))

MulOver(a, b, g1, g2) ==
    Rat((a.n \div g1) * (b.n \div g2), (a.d \div g2) * (b.d \div g1))

RatMul(a, b) == MulOver(a, b, GCD(Abs(a.n), b.d), GCD(Abs(b.n), a.d))

\* a / b for b > 0; the callers test b for zero, where Python raises
RatDiv(a, b) == RatMul(a, [n |-> b.d, d |-> b.n])

LeqOver(a, b, g) == a.n * (b.d \div g) <= b.n * (a.d \div g)

RatLeq(a, b) == LeqOver(a, b, GCD(a.d, b.d))

RatLt(a, b) == RatLeq(a, b) /\ a # b

IsZero(a) == a.n = 0

\* np.ceil followed by int(), for a >= 0
Ceil(a) == (a.n + a.d - 1) \div a.d

\* round half to even to the nearest integer, for a >= 0
HalfEven(f, r, d) ==
    IF 2 * r < d THEN f
    ELSE IF 2 * r > d THEN f + 1
    ELSE IF f % 2 = 0 THEN f ELSE f + 1

RoundInt(a) == HalfEven(a.n \div a.d, a.n % a.d, a.d)

\* round(x, 2)
Round2(a) == Rat(RoundInt(RatMul(a, RatInt(100))), 100)

-----------------------------------------------------------------------------
(* Reference data.                                                         *)

Appliance(p, hn, hd, pr) == [power |-> p, hours |-> Rat(hn, hd), priority |-> pr]

APPLIANCES_DB ==
    ( "Refrigerator (Energy Efficient)" :> Appliance(150, 24, 1, "High")
   @@ "Refrigerator (Standard)" :> Appliance(300, 24, 1, "High")
   @@ "Air Conditioner (1HP)" :> Appliance(746, 8, 1, "Medium")
   @@ "Air Conditioner (1.5HP)" :> Appliance(1119, 8, 1, "Medium")
   @@ "Air Conditioner (2HP)" :> Appliance(1492, 8, 1, "Low")
   @@ "LED TV (32 inch)" :> Appliance(60, 6, 1, "Medium")
   @@ "LED TV (55 inch)" :> Appliance(120, 6, 1, "Medium")
   @@ "Ceiling Fan" :> Appliance(75, 12, 1, "High")
   @@ "LED Bulb (12W)" :> Appliance(12, 8, 1, "High")
   @@ "Fluorescent Tube" :> Appliance(40, 8, 1, "Medium")
   @@ "Laptop" :> Appliance(65, 8, 1, "High")
   @@ "Desktop Computer" :> Appliance(200, 8, 1, "Medium")
   @@ "Washing Machine" :> Appliance(500, 1, 1, "Medium")
   @@ "Microwave" :> Appliance(1000, 1, 2, "Low")
   @@ "Electric Kettle" :> Appliance(1500, 1, 4, "Low")
   @@ "Iron" :> Appliance(1200, 1, 1, "Low")
   @@ "Water Pump" :> Appliance(750, 2, 1, "High")
   @@ "Security System" :> Appliance(50, 24, 1, "High")
   @@ "Phone Charger" :> Appliance(10, 3, 1, "High")
   @@ "Router/WiFi" :> Appliance(20, 24, 1, "High") )

Panel(nm, w, p, e, y) ==
    [name |-> nm, watts |-> w, price |-> p, efficiency |-> e, warranty |-> y]

SOLAR_PANELS ==
    << Panel("Monocrystalline 300W", 300, 85000, 20, 25),
       Panel("Monocrystalline 400W", 400, 110000, 21, 25),
       Panel("Monocrystalline 500W", 500, 135000, 22, 25),
       Panel("Polycrystalline 300W", 300, 75000, 17, 20),
       Panel("Polycrystalline 400W", 400, 95000, 18, 20) >>

NIGERIAN_CITIES ==
    ( "Lagos" :> Rat(45, 10) @@ "Abuja" :> Rat(52, 10) @@ "Kano" :> Rat(58, 10)
   @@ "Ibadan" :> Rat(48, 10) @@ "Port Harcourt" :> Rat(42, 10)
   @@ "Kaduna" :> Rat(55, 10) @@ "Benin City" :> Rat(44, 10)
   @@ "Jos" :> Rat(57, 10) @@ "Ilorin" :> Rat(51, 10)
   @@ "Maiduguri" :> Rat(60, 10) )

Vendor(nm, r10, ph, sp) ==
    [name |-> nm, rating |-> Rat(r10, 10), phone |-> ph, speciality |-> sp]

VENDORS ==
    ( "Lagos" :>
        << Vendor("SolarMax Nigeria", 45, "08012345678", "Residential"),
           Vendor("GreenTech Solar", 42, "08087654321", "Commercial"),
           Vendor("PowerGen Solutions", 47, "08011223344", "Hybrid Systems") >>
   @@ "Abuja" :>
        << Vendor("Capital Solar", 46, "08055667788", "Residential"),
           Vendor("Federal Solar Co.", 43, "08099887766", "Government Projects"),
           Vendor("Sunrise Energy", 44, "08033445566", "Off-grid Systems") >>
   @@ "Kano" :>
        << Vendor("Northern Solar", 41, "08077889900", "Agricultural"),
           Vendor("Sahel Power", 45, "08044556677", "Residential") >> )

-----------------------------------------------------------------------------
(* calculate_daily_consumption: the loop over appliances_data.items().     *)

\* a slip: the quantity left out of the product
watts_without_quantity(data) == data.power

\* watts = data['power'] * data['quantity']
watts_of(data) == data.power * data.quantity

\* kwh = (watts * data['hours']) / 1000
kwh_of(watts, data) == RatDiv(RatMul(RatInt(watts), data.hours), RatInt(1000))

\* a slip: total_kwh = kwh where the code has total_kwh += kwh
RECURSIVE consumption_loop_assigning(_, _, _, _)
consumption_loop_assigning(items, i, total_watts, total_kwh) ==
    IF i > Len(items) THEN [total_watts |-> total_watts, total_kwh |-> total_kwh]
    ELSE IF items[i].quantity > 0
         THEN consumption_loop_assigning(items, i + 1,
                                         total_watts + items[i].power * items[i].quantity,
                                         Rat(items[i].power * items[i].quantity
                                                 * items[i].hours.n,
                                             1000 * items[i].hours.d))
         ELSE consumption_loop_assigning(items, i + 1, total_watts, total_kwh)

RECURSIVE consumption_loop(_, _, _, _)
consumption_loop(items, i, total_watts, total_kwh) ==
    IF i > Len(items) THEN [total_watts |-> total_watts, total_kwh |-> total_kwh]
    ELSE IF items[i].quantity > 0
         THEN consumption_loop(items, i + 1,
                               total_watts + watts_of(items[i]),
                               RatAdd(total_kwh,
                                      kwh_of(watts_of(items[i]), items[i])))
         ELSE consumption_loop(items, i + 1, total_watts, total_kwh)

calculate_daily_consumption(items) == consumption_loop(items, 1, 0, RatInt(0))

(* calculate_solar_system                                                  *)

system_efficiency == Rat(85, 100)

DefaultIrradiance == Rat(50, 10)

IrradianceOf(loc) ==
    IF loc \in DOMAIN NIGERIAN_CITIES THEN NIGERIAN_CITIES[loc]
    ELSE DefaultIrradiance

\* a slip: the system losses left out
solar_system_without_losses(daily_kwh, solar_irradiance, autonomy) ==
    [required_kwp |-> RatDiv(daily_kwh, solar_irradiance),
     battery_kwh |-> RatMul(daily_kwh, RatInt(autonomy)),
     solar_irradiance |-> solar_irradiance]

solar_system(daily_kwh, solar_irradiance, autonomy) ==
    [required_kwp |-> RatDiv(daily_kwh,
                             RatMul(solar_irradiance, system_efficiency)),
     battery_kwh |-> RatMul(daily_kwh, RatInt(autonomy)),
     solar_irradiance |-> solar_irradiance]

calculate_solar_system(daily_kwh, loc, autonomy) ==
    solar_system(daily_kwh, IrradianceOf(loc), autonomy)

(* The f"₦{x:,.0f}" format and the float(s.replace(...)) that reads it back *)

Digit == <<"0", "1", "2", "3", "4", "5", "6", "7", "8", "9">>

RECURSIVE Digits(_)
Digits(n) == IF n < 10 THEN <<Digit[n + 1]>>
             ELSE Append(Digits(n \div 10), Digit[(n % 10) + 1])

RECURSIVE Grouped(_)
Grouped(ds) ==
    IF Len(ds) <= 3 THEN ds
    ELSE Grouped(SubSeq(ds, 1, Len(ds) - 3)) \o <<",">>
         \o SubSeq(ds, Len(ds) - 2, Len(ds))

FormatNaira(x) == <<"N">> \o Grouped(Digits(RoundInt(x)))

DigitValue(c) == CHOOSE v \in 0..9 : Digit[v + 1] = c

RECURSIVE DigitsValue(_, _)
DigitsValue(ds, acc) ==
    IF ds = <<>> THEN acc
    ELSE DigitsValue(Tail(ds), 10 * acc + DigitValue(Head(ds)))

ParseNaira(s) ==
    RatInt(DigitsValue(SelectSeq(s, LAMBDA c : c # "N" /\ c # ","), 0))

(* recommend_panels                                                        *)

\* panel_kw = panel_data['watts'] / 1000
panel_kw_of(panel_data) == Rat(panel_data.watts, 1000)

\* a slip: int() alone, which truncates
num_panels_truncated(required_kwp, panel_kw) ==
    RatDiv(required_kwp, panel_kw).n \div RatDiv(required_kwp, panel_kw).d

\* num_panels = int(np.ceil(required_kwp / panel_kw))
num_panels_of(required_kwp, panel_kw) == Ceil(RatDiv(required_kwp, panel_kw))

RecommendationRow(panel_data, panel_kw, num_panels) ==
    [panel_type |-> panel_data.name,
     number_of_panels |-> num_panels,
     total_capacity |-> Round2(RatMul(RatInt(num_panels), panel_kw)),
     total_cost |-> FormatNaira(RatInt(num_panels * panel_data.price)),
     cost_per_watt |-> Round2(Rat(panel_data.price, panel_data.watts)),
     efficiency |-> panel_data.efficiency,
     warranty |-> panel_data.warranty]

PanelRow(required_kwp, panel_data) ==
    RecommendationRow(panel_data, panel_kw_of(panel_data),
                      num_panels_of(required_kwp, panel_kw_of(panel_data)))

recommend_panels(required_kwp) ==
    [i \in 1..Len(SOLAR_PANELS) |-> PanelRow(required_kwp, SOLAR_PANELS[i])]

(* Find Vendors: VENDORS.get(selected_city, []) and the filtering loop     *)

city_vendors(city) == IF city \in DOMAIN VENDORS THEN VENDORS[city] ELSE <<>>

\* a slip: the "All" case left out
VendorShownExact(vendor, filter) == vendor.speciality = filter

VendorShown(vendor, filter) == filter = "All" \/ vendor.speciality = filter

RECURSIVE vendor_loop(_, _, _, _)
vendor_loop(vs, i, filter, shown) ==
    IF i > Len(vs) THEN shown
    ELSE vendor_loop(vs, i + 1, filter,
                     IF VendorShown(vs[i], filter) THEN Append(shown, vs[i])
                     ELSE shown)

find_vendors(city, filter) == vendor_loop(city_vendors(city), 1, filter, <<>>)

-----------------------------------------------------------------------------
(* The working set: st.session_state.appliances_data, a dict kept in       *)
(* insertion order, as the sequence of its items.                          *)

Entry(nm, p, h, q, pr) ==
    [name |-> nm, power |-> p, hours |-> h, quantity |-> q, priority |-> pr]

HasName(data, nm) == \E i \in 1..Len(data) : data[i].name = nm

Names(data) == {data[i].name : i \in 1..Len(data)}

\* del st.session_state.appliances_data[appliance]
RemoveName(data, nm) == SelectSeq(data, LAMBDA e : e.name # nm)

\* the entry a multiselect choice creates
CatalogEntry(nm) ==
    Entry(nm, APPLIANCES_DB[nm].power, APPLIANCES_DB[nm].hours, 1,
          APPLIANCES_DB[nm].priority)

\* for appliance in selected_appliances: if appliance not in ...: add it
RECURSIVE add_selected(_, _, _)
add_selected(data, sel, i) ==
    IF i > Len(sel) THEN data
    ELSE add_selected(IF HasName(data, sel[i]) THEN data
                      ELSE Append(data, CatalogEntry(sel[i])),
                      sel, i + 1)

\* the "custom_appliance" form; submitted = FALSE when the button was not pressed
NoForm == [submitted |-> FALSE, name |-> "", power |-> 1, hours |-> RatInt(0),
           priority |-> "High"]

\* a slip: the form stores its entry without testing "not in"
add_custom_overwriting(data, form) ==
    IF form.submitted /\ form.name # "" /\ HasName(data, form.name)
    THEN [i \in 1..Len(data) |->
             IF data[i].name = form.name
             THEN Entry(form.name, form.power, form.hours, 1, form.priority)
             ELSE data[i]]
    ELSE IF form.submitted /\ form.name # ""
         THEN Append(data, Entry(form.name, form.power, form.hours, 1, form.priority))
         ELSE data

add_custom(data, form) ==
    IF form.submitted /\ form.name # "" /\ ~HasName(data, form.name)
    THEN Append(data, Entry(form.name, form.power, form.hours, 1, form.priority))
    ELSE data

\* A number_input shows the stored value (value=data[...]) until the user
\* types another one; the loop stores what the widget returns.
NoEdit == [name |-> "", field |-> "none", quantity |-> 0, hours |-> RatInt(0)]

configure(data, edit) ==
    [i \in 1..Len(data) |->
        IF data[i].name # edit.name \/ edit.field = "none" THEN data[i]
        ELSE IF edit.field = "quantity"
             THEN [data[i] EXCEPT !.quantity = edit.quantity]
             ELSE [data[i] EXCEPT !.hours = edit.hours]]

\* One interaction on the Load Calculator page, up to the end of the script.
\* A pressed delete button deletes the entry and calls st.experimental_rerun():
\* the script starts again with the widgets as they are and no button pressed.
press_delete(shown, sel, del_name) ==
    IF del_name # "" /\ HasName(shown, del_name)
    THEN add_selected(RemoveName(shown, del_name), sel, 1)
    ELSE shown

load_calculator(data, sel, form, edit, del_name) ==
    press_delete(configure(add_custom(add_selected(data, sel, 1), form), edit),
                 sel, del_name)

-----------------------------------------------------------------------------
(* Solar Sizing page                                                       *)

\* recommendations_df['Cost per Watt'].idxmin(): the first row with the minimum
best_option(recs) ==
    recs[CHOOSE k \in 1..Len(recs) :
             /\ \A j \in 1..Len(recs) :
                    RatLeq(recs[k].cost_per_watt, recs[j].cost_per_watt)
             /\ \A j \in 1..(k - 1) :
                    recs[j].cost_per_watt # recs[k].cost_per_watt]

InverterRate == 200000
BatteryRate == 150000
InstallationShare == Rat(3, 10)
GeneratorRate == 100
DaysPerMonth == 30

monthly_savings_of(total_kwh) ==
    RatMul(RatMul(total_kwh, RatInt(DaysPerMonth)), RatInt(GeneratorRate))

\* "ROI calculation": total_system_cost / monthly_savings raises
\* ZeroDivisionError on a zero divisor; what was drawn before it stays drawn
return_on_investment(shown) ==
    IF IsZero(shown.monthly_savings)
    THEN [outcome |-> "ZeroDivisionError", sizing |-> <<shown>>]
    ELSE [outcome |-> "ok",
          sizing |-> <<shown @@ [payback_months |->
                          RatDiv(shown.total_system_cost, shown.monthly_savings)]>>]

\* "Additional components estimate"
system_cost(panel_cost, required_kwp, battery_kwh) ==
    RatAdd(RatAdd(RatAdd(panel_cost, RatMul(required_kwp, RatInt(InverterRate))),
                  RatMul(battery_kwh, RatInt(BatteryRate))),
           RatMul(panel_cost, InstallationShare))

system_estimate(load, sys, recommendations_df, best) ==
    return_on_investment(
        [total_kwh |-> load.total_kwh,
         required_kwp |-> sys.required_kwp,
         battery_kwh |-> sys.battery_kwh,
         solar_irradiance |-> sys.solar_irradiance,
         recommendations |-> recommendations_df,
         best_option |-> best.panel_type,
         total_system_cost |-> system_cost(ParseNaira(best.total_cost),
                                           sys.required_kwp, sys.battery_kwh),
         monthly_savings |-> monthly_savings_of(load.total_kwh)])

panel_recommendations(load, sys, recommendations_df) ==
    system_estimate(load, sys, recommendations_df, best_option(recommendations_df))

requirements(load, sys) ==
    panel_recommendations(load, sys, recommend_panels(sys.required_kwp))

system_configuration(load, loc, autonomy) ==
    requirements(load, calculate_solar_system(load.total_kwh, loc, autonomy))

\* One run of the page.
solar_sizing(data, loc, autonomy) ==
    IF data = <<>> THEN [outcome |-> "stopped", sizing |-> <<>>]
    ELSE system_configuration(calculate_daily_consumption(data), loc, autonomy)

-----
(* Load Optimization page                                                  *)

PriorityOptions == {"High", "Medium", "Low", "Remove"}

\* ["High", "Medium", "Low"].index(...) raises ValueError on anything else
IndexablePriorities == {"High", "Medium", "Low"}

\* The "Priority adjustment" loop.  adjust names the selectbox the user changed
\* ("" for none) and its new value; the other selectboxes show the stored
\* priority and return it.  raised: the index() call raised ValueError.
RECURSIVE priority_loop(_, _, _)
priority_loop(data, i, adjust) ==
    IF i > Len(data) THEN [data |-> data, raised |-> FALSE]
    ELSE IF data[i].quantity > 0
         THEN IF data[i].priority \notin IndexablePriorities
              THEN [data |-> data, raised |-> TRUE]
              ELSE priority_loop(
                       [data EXCEPT ![i].priority =
                            IF data[i].name = adjust.name THEN adjust.priority
                            ELSE data[i].priority],
                       i + 1, adjust)
         ELSE priority_loop(data, i + 1, adjust)

NoAdjust == [name |-> "", priority |-> "High"]

\* a slip: the second scenario without the High tier
scenarios_medium_alone ==
    << [name |-> "Essential Only (High Priority)", priorities |-> {"High"}],
       [name |-> "Essential + Important (High + Medium)",
        priorities |-> {"Medium"}],
       [name |-> "All Appliances", priorities |-> {"High", "Medium", "Low"}] >>

scenarios ==
    << [name |-> "Essential Only (High Priority)", priorities |-> {"High"}],
       [name |-> "Essential + Important (High + Medium)",
        priorities |-> {"High", "Medium"}],
       [name |-> "All Appliances", priorities |-> {"High", "Medium", "Low"}] >>

scenario_appliances(data, priorities) ==
    SelectSeq(data, LAMBDA e : /\ e.priority \in priorities
                               /\ e.quantity > 0
                               /\ e.priority # "Remove")

PanelRate == 300000
DefaultAutonomy == 2

\* "Estimate system cost"
\* a slip: the installation share left out of the sum
sum_without_installation(panel, inverter, battery, installation) ==
    RatAdd(RatAdd(panel, inverter), battery)

sum_of_costs(panel_cost, inverter_cost, battery_cost, installation_cost) ==
    RatAdd(RatAdd(RatAdd(panel_cost, inverter_cost), battery_cost),
           installation_cost)

scenario_cost(required_kwp, battery_kwh) ==
    sum_of_costs(RatMul(required_kwp, RatInt(PanelRate)),
                 RatMul(required_kwp, RatInt(InverterRate)),
                 RatMul(battery_kwh, RatInt(BatteryRate)),
                 RatMul(RatMul(required_kwp, RatInt(PanelRate)),
                        InstallationShare))

within_budget(total_cost, budget) == RatLeq(total_cost, RatInt(budget))

\* one row of `results`
result_row(scenario_name, total_kwh, required_kwp, total_cost, budget) ==
    [scenario |-> scenario_name,
     daily_kwh |-> Round2(total_kwh),
     solar_kwp |-> Round2(required_kwp),
     est_cost |-> FormatNaira(total_cost),
     within_budget |-> within_budget(total_cost, budget),
     monthly_savings |-> FormatNaira(monthly_savings_of(total_kwh))]

sized_row(scenario_name, total_kwh, sys, budget) ==
    result_row(scenario_name, total_kwh, sys.required_kwp,
               scenario_cost(sys.required_kwp, sys.battery_kwh), budget)

loaded_row(scenario_name, load, budget) ==
    sized_row(scenario_name, load.total_kwh,
              calculate_solar_system(load.total_kwh, "Lagos", DefaultAutonomy),
              budget)

scenario_row(scenario_name, subset, budget) ==
    loaded_row(scenario_name, calculate_daily_consumption(subset), budget)

\* for scenario_name, priorities in scenarios.items(): ... results.append(...)
RECURSIVE scenario_loop(_, _, _, _)
append_row(rows, scenario_name, subset, budget) ==
    IF subset # <<>> THEN Append(rows, scenario_row(scenario_name, subset, budget))
    ELSE rows

scenario_loop(data, budget, k, rows) ==
    IF k > Len(scenarios) THEN rows
    ELSE scenario_loop(data, budget, k + 1,
                       append_row(rows, scenarios[k].name,
                                  scenario_appliances(data, scenarios[k].priorities),
                                  budget))

affordable(rows) == SelectSeq(rows, LAMBDA r : r.within_budget)

\* max(affordable_scenarios, key=...): the first row holding the greatest key
\* a slip: the first affordable row taken
first_row(rows) == rows[1]

max_by_daily_kwh(rows) ==
    rows[CHOOSE k \in 1..Len(rows) :
             /\ \A j \in 1..Len(rows) :
                    RatLeq(rows[j].daily_kwh, rows[k].daily_kwh)
             /\ \A j \in 1..(k - 1) : rows[j].daily_kwh # rows[k].daily_kwh]

\* if affordable_scenarios: best_scenario = max(...)
pick_best(affordable_scenarios) ==
    IF affordable_scenarios # <<>> THEN <<max_by_daily_kwh(affordable_scenarios)>>
    ELSE <<>>

recommend_scenario(rows) == pick_best(affordable(rows))

optimization_results(data, rows) ==
    [outcome |-> "ok", data |-> data, results |-> rows,
     best |-> recommend_scenario(rows)]

after_priorities(pl, budget) ==
    IF pl.raised
    THEN [outcome |-> "ValueError", data |-> pl.data, results |-> <<>>,
          best |-> <<>>]
    ELSE optimization_results(pl.data, scenario_loop(pl.data, budget, 1, <<>>))

\* One run of the page.
load_optimization(data, budget, adjust) ==
    IF data = <<>>
    THEN [outcome |-> "stopped", data |-> data, results |-> <<>>, best |-> <<>>]
    ELSE after_priorities(priority_loop(data, 1, adjust), budget)

\* the selectbox of entry nm is drawn in this state of the working set
PriorityWidgetDrawn(data, nm) ==
    \E i \in 1..Len(data) :
        /\ data[i].name = nm
        /\ \A j \in 1..i : data[j].quantity > 0
                               => data[j].priority \in IndexablePriorities
        /\ data[i].quantity > 0

-----------------------------------------------------------------------------
(* Widget defaults and the values the modelled user enters.                *)

Pages == {"Load Calculator", "Solar Sizing", "Load Optimization", "Find Vendors"}

DefaultLocation == "Lagos"
DefaultBudget == 2000000
MinBudget == 100000
DefaultCity == "Lagos"
DefaultService == "All"
MinAutonomy == 1
MaxAutonomy == 5

ServiceTypes ==
    {"All", "Residential", "Commercial", "Off-grid Systems", "Hybrid Systems"}

MaxEntries == 2
MaxQty == 1

CatalogInputs == {"Refrigerator (Energy Efficient)", "Microwave"}
CustomNameInputs == {"", "Freezer", "Microwave"}
CustomPowerInputs == {40}
CustomHoursInputs == {Rat(1, 10)}
CustomPriorityInputs == {"Medium"}
QuantityInputs == 0..MaxQty
HoursInputs == {RatInt(0)}
LocationInputs == {"Lagos", "Maiduguri"}
AutonomyInputs == {MinAutonomy, DefaultAutonomy}
BudgetInputs == {MinBudget, DefaultBudget}
CityInputs == {"Lagos", "Kano"}
ServiceInputs == {"All", "Residential"}

-----------------------------------------------------------------------------
(* The session.  Each action is one user interaction and the script run it *)
(* starts.  Widgets of a page that is not drawn lose their state, so they  *)
(* are at their defaults whenever another page is shown.                   *)

NoCall == [fn |-> "none"]

Init ==
    /\ appliances_data = <<>>
    /\ page = "Load Calculator"
    /\ selected_appliances = <<>>
    /\ location = DefaultLocation
    /\ autonomy_days = DefaultAutonomy
    /\ max_budget = DefaultBudget
    /\ selected_city = DefaultCity
    /\ service_type = DefaultService
    /\ outcome = "ok"
    /\ sizing = <<>>
    /\ results = <<>>
    /\ best_scenario = <<>>
    /\ shown_vendors = <<>>
    /\ call = NoCall

RunLoadCalculator(sel, form, edit, del_name) ==
    /\ page' = "Load Calculator"
    /\ selected_appliances' = sel
    /\ appliances_data' = load_calculator(appliances_data, sel, form, edit, del_name)
    /\ outcome' = "ok"
    /\ location' = DefaultLocation
    /\ autonomy_days' = DefaultAutonomy
    /\ max_budget' = DefaultBudget
    /\ selected_city' = DefaultCity
    /\ service_type' = DefaultService
    /\ sizing' = <<>>
    /\ results' = <<>>
    /\ best_scenario' = <<>>
    /\ shown_vendors' = <<>>
    /\ UNCHANGED call

RunSolarSizing(loc, autonomy) ==
    \E run \in {solar_sizing(appliances_data, loc, autonomy)} :
        /\ page' = "Solar Sizing"
        /\ selected_appliances' = <<>>
        /\ outcome' = run.outcome
        /\ sizing' = run.sizing
        /\ location' = loc
        /\ autonomy_days' = autonomy
        /\ max_budget' = DefaultBudget
        /\ selected_city' = DefaultCity
        /\ service_type' = DefaultService
        /\ results' = <<>>
        /\ best_scenario' = <<>>
        /\ shown_vendors' = <<>>
        /\ UNCHANGED <<appliances_data, call>>

RunLoadOptimization(budget, adjust) ==
    \E run \in {load_optimization(appliances_data, budget, adjust)} :
        /\ page' = "Load Optimization"
        /\ selected_appliances' = <<>>
        /\ appliances_data' = run.data
        /\ outcome' = run.outcome
        /\ results' = run.results
        /\ best_scenario' = run.best
        /\ max_budget' = budget
        /\ location' = DefaultLocation
        /\ autonomy_days' = DefaultAutonomy
        /\ selected_city' = DefaultCity
        /\ service_type' = DefaultService
        /\ sizing' = <<>>
        /\ shown_vendors' = <<>>
        /\ UNCHANGED call

\* quote = 0: no "Get Quote" button pressed; otherwise the position, among the
\* vendors listed, of the one whose button was pressed.  Its message reads
\* required_kwp and total_kwh, which are bound only when the working set is
\* not empty.
RunFindVendors(city, service, quote) ==
    \E listed \in {find_vendors(city, service)},
       fails \in {quote > 0 /\ appliances_data = <<>>} :
        /\ page' = "Find Vendors"
        /\ selected_appliances' = <<>>
        /\ selected_city' = city
        /\ service_type' = service
        /\ outcome' = IF fails THEN "NameError" ELSE "ok"
        /\ shown_vendors' = IF fails THEN SubSeq(listed, 1, quote) ELSE listed
        /\ location' = DefaultLocation
        /\ autonomy_days' = DefaultAutonomy
        /\ max_budget' = DefaultBudget
        /\ sizing' = <<>>
        /\ results' = <<>>
        /\ best_scenario' = <<>>
        /\ UNCHANGED <<appliances_data, call>>

(* sidebar radio *)
OpenLoadCalculator ==
    /\ page # "Load Calculator"
    /\ RunLoadCalculator(<<>>, NoForm, NoEdit, "")

OpenSolarSizing ==
    /\ page # "Solar Sizing"
    /\ RunSolarSizing(DefaultLocation, DefaultAutonomy)

OpenLoadOptimization ==
    /\ page # "Load Optimization"
    /\ RunLoadOptimization(DefaultBudget, NoAdjust)

OpenFindVendors ==
    /\ page # "Find Vendors"
    /\ RunFindVendors(DefaultCity, DefaultService, 0)

(* Load Calculator *)
InSeq(s, x) == \E i \in 1..Len(s) : s[i] = x

SelectAppliance(nm) ==
    /\ page = "Load Calculator"
    /\ ~InSeq(selected_appliances, nm)
    /\ Len(add_selected(appliances_data, Append(selected_appliances, nm), 1))
           <= MaxEntries
    /\ RunLoadCalculator(Append(selected_appliances, nm), NoForm, NoEdit, "")

DeselectAppliance(nm) ==
    /\ page = "Load Calculator"
    /\ InSeq(selected_appliances, nm)
    /\ RunLoadCalculator(SelectSeq(selected_appliances, LAMBDA x : x # nm),
                         NoForm, NoEdit, "")

SubmitCustom(nm, p, h, pr) ==
    /\ page = "Load Calculator"
    /\ LET form == [submitted |-> TRUE, name |-> nm, power |-> p, hours |-> h,
                    priority |-> pr]
       IN  /\ Len(add_custom(appliances_data, form)) <= MaxEntries
           /\ RunLoadCalculator(selected_appliances, form, NoEdit, "")

EditQuantity(nm, q) ==
    /\ page = "Load Calculator"
    /\ \E i \in 1..Len(appliances_data) :
           appliances_data[i].name = nm /\ appliances_data[i].quantity # q
    /\ RunLoadCalculator(selected_appliances, NoForm,
                         [name |-> nm, field |-> "quantity", quantity |-> q,
                          hours |-> RatInt(0)], "")

EditHours(nm, h) ==
    /\ page = "Load Calculator"
    /\ \E i \in 1..Len(appliances_data) :
           appliances_data[i].name = nm /\ appliances_data[i].hours # h
    /\ RunLoadCalculator(selected_appliances, NoForm,
                         [name |-> nm, field |-> "hours", quantity |-> 0,
                          hours |-> h], "")

Remove(nm) ==
    /\ page = "Load Calculator"
    /\ HasName(appliances_data, nm)
    /\ RunLoadCalculator(selected_appliances, NoForm, NoEdit, nm)

(* Solar Sizing: the widgets are drawn unless the page stopped at the warning *)
SelectLocation(loc) ==
    /\ page = "Solar Sizing"
    /\ appliances_data # <<>>
    /\ loc # location
    /\ RunSolarSizing(loc, autonomy_days)

SetAutonomy(d) ==
    /\ page = "Solar Sizing"
    /\ appliances_data # <<>>
    /\ d # autonomy_days
    /\ RunSolarSizing(location, d)

(* Load Optimization *)
SetBudget(b) ==
    /\ page = "Load Optimization"
    /\ appliances_data # <<>>
    /\ b # max_budget
    /\ RunLoadOptimization(b, NoAdjust)

AdjustPriority(nm, pr) ==
    /\ page = "Load Optimization"
    /\ PriorityWidgetDrawn(appliances_data, nm)
    /\ \E i \in 1..Len(appliances_data) :
           appliances_data[i].name = nm /\ appliances_data[i].priority # pr
    /\ RunLoadOptimization(max_budget, [name |-> nm, priority |-> pr])

(* Find Vendors *)
SelectCity(city) ==
    /\ page = "Find Vendors"
    /\ city # selected_city
    /\ RunFindVendors(city, service_type, 0)

SelectService(service) ==
    /\ page = "Find Vendors"
    /\ service # service_type
    /\ RunFindVendors(selected_city, service, 0)

RequestQuote(k) ==
    /\ page = "Find Vendors"
    /\ k \in 1..Len(find_vendors(selected_city, service_type))
    /\ RunFindVendors(selected_city, service_type, k)

RegisterBusiness ==
    /\ page = "Find Vendors"
    /\ outcome # "ok"
    /\ RunFindVendors(selected_city, service_type, 0)

Next ==
    \/ OpenLoadCalculator
    \/ OpenSolarSizing
    \/ OpenLoadOptimization
    \/ OpenFindVendors
    \/ \E nm \in CatalogInputs : SelectAppliance(nm)
    \/ \E nm \in CatalogInputs : DeselectAppliance(nm)
    \/ \E nm \in CustomNameInputs, p \in CustomPowerInputs,
          h \in CustomHoursInputs, pr \in CustomPriorityInputs :
           SubmitCustom(nm, p, h, pr)
    \/ \E nm \in Names(appliances_data), q \in QuantityInputs : EditQuantity(nm, q)
    \/ \E nm \in Names(appliances_data), h \in HoursInputs : EditHours(nm, h)
    \/ \E nm \in Names(appliances_data) : Remove(nm)
    \/ \E loc \in LocationInputs : SelectLocation(loc)
    \/ \E d \in AutonomyInputs : SetAutonomy(d)
    \/ \E b \in BudgetInputs : SetBudget(b)
    \/ \E nm \in Names(appliances_data), pr \in PriorityOptions :
           AdjustPriority(nm, pr)
    \/ \E city \in CityInputs : SelectCity(city)
    \/ \E service \in ServiceInputs : SelectService(service)
    \/ \E k \in 1..3 : RequestQuote(k)
    \/ RegisterBusiness

Spec == Init /\ [][Next]_vars

-----------------------------------------------------------------------------
(* The calculation functions called directly, on arguments the pages never *)
(* pass: a location outside the city table, a city outside the vendor      *)
(* table, any required_kwp.  A behaviour makes one call.                   *)

MaxCallEntries == 2
MaxCallQty == 2
MaxKwhTenths == 100
MaxKwpSteps == 60

CallNames == {"Refrigerator (Energy Efficient)", "Microwave"}
CallPowers == {150, 1000}
CallHours == {RatInt(24), Rat(1, 2), RatInt(0)}

CallEntries ==
    {Entry(nm, p, h, q, "High") :
        nm \in CallNames, p \in CallPowers, h \in CallHours, q \in 0..MaxCallQty}

CallWorkingSets ==
    {items \in UNION {[1..k -> CallEntries] : k \in 0..MaxCallEntries} :
        \A i, j \in 1..Len(items) : i # j => items[i].name # items[j].name}

CallKwh == {Rat(k, 10) : k \in 0..MaxKwhTenths}
CallLocations == DOMAIN NIGERIAN_CITIES \cup {"Atlantis", ""}
CallAutonomy == MinAutonomy..MaxAutonomy
CallKwp == {Rat(k, 20) : k \in 0..MaxKwpSteps} \cup {Rat(40, 17)}
CallCities == DOMAIN VENDORS \cup {"Ibadan", ""}

CallConsumption(items) ==
    /\ call = NoCall
    /\ call' = [fn |-> "calculate_daily_consumption", items |-> items,
                result |-> calculate_daily_consumption(items)]
    /\ UNCHANGED <<appliances_data, page, selected_appliances, location,
                   autonomy_days, max_budget, selected_city, service_type,
                   outcome, sizing, results, best_scenario, shown_vendors>>

CallSolarSystem(daily_kwh, loc, autonomy) ==
    /\ call = NoCall
    /\ call' = [fn |-> "calculate_solar_system", daily_kwh |-> daily_kwh,
                location |-> loc, autonomy_days |-> autonomy,
                result |-> calculate_solar_system(daily_kwh, loc, autonomy)]
    /\ UNCHANGED <<appliances_data, page, selected_appliances, location,
                   autonomy_days, max_budget, selected_city, service_type,
                   outcome, sizing, results, best_scenario, shown_vendors>>

CallRecommendPanels(required_kwp) ==
    /\ call = NoCall
    /\ call' = [fn |-> "recommend_panels", required_kwp |-> required_kwp,
                result |-> recommend_panels(required_kwp)]
    /\ UNCHANGED <<appliances_data, page, selected_appliances, location,
                   autonomy_days, max_budget, selected_city, service_type,
                   outcome, sizing, results, best_scenario, shown_vendors>>

CallFindVendors(city, filter) ==
    /\ call = NoCall
    /\ call' = [fn |-> "find_vendors", city |-> city, filter |-> filter,
                result |-> find_vendors(city, filter)]
    /\ UNCHANGED <<appliances_data, page, selected_appliances, location,
                   autonomy_days, max_budget, selected_city, service_type,
                   outcome, sizing, results, best_scenario, shown_vendors>>

NextFn ==
    \/ \E items \in CallWorkingSets : CallConsumption(items)
    \/ \E daily_kwh \in CallKwh, loc \in CallLocations, autonomy \in CallAutonomy :
           CallSolarSystem(daily_kwh, loc, autonomy)
    \/ \E required_kwp \in CallKwp : CallRecommendPanels(required_kwp)
    \/ \E city \in CallCities, filter \in ServiceTypes : CallFindVendors(city, filter)

SpecFn == Init /\ [][NextFn]_vars

-----------------------------------------------------------------------------
(* Properties.                                                             *)

\* the sum of f over the indices in S, taken in no particular order
RECURSIVE SumWatts(_, _)
SumWatts(items, S) ==
    IF S = {} THEN 0
    ELSE LET i == CHOOSE j \in S : TRUE
         IN  items[i].power * items[i].quantity + SumWatts(items, S \ {i})

RECURSIVE SumKwh(_, _)
SumKwh(items, S) ==
    IF S = {} THEN RatInt(0)
    ELSE LET i == CHOOSE j \in S : TRUE
         IN  RatAdd(Rat(items[i].power * items[i].quantity * items[i].hours.n,
                        1000 * items[i].hours.d),
                    SumKwh(items, S \ {i}))

Counted(items) == {i \in 1..Len(items) : items[i].quantity > 0}

\* C1: calculate_daily_consumption returns total_watts = the sum of
\* power x quantity and total_daily_kwh = the sum of power x quantity x hours
\* / 1000, both over exactly the entries with quantity > 0; one entry of 150 W,
\* 24 h, quantity 1 gives 150 W and 3.6 kWh.
C1_ConsumptionIsSum ==
    call.fn = "calculate_daily_consumption" =>
        /\ call.result.total_watts = SumWatts(call.items, Counted(call.items))
        /\ call.result.total_kwh = SumKwh(call.items, Counted(call.items))
        /\ (call.items = <<Entry("Refrigerator (Energy Efficient)", 150,
                                 RatInt(24), 1, "High")>>
               => call.result = [total_watts |-> 150, total_kwh |-> Rat(36, 10)])

C1_Witness ==
    /\ call.fn = "calculate_daily_consumption"
    /\ Len(call.items) = 2
    /\ call.items[1].quantity = 0 /\ call.items[1].hours # RatInt(0)
    /\ call.items[2].quantity = 2
    /\ call.result.total_kwh = Rat(2 * call.items[2].power * call.items[2].hours.n,
                                   1000 * call.items[2].hours.d)
    /\ ~IsZero(call.result.total_kwh)

\* C2: recommend_panels yields exactly one row per catalog panel; in each row
\* panel_count x (watt_rating / 1000) >= required_kwp, panel_count is the
\* smallest non-negative integer with that property, and panel_count >= 1
\* whenever required_kwp > 0; required_kwp = 2.0 with a 400 W panel gives 5.
C2_PanelCountIsCeiling ==
    call.fn = "recommend_panels" =>
        /\ Len(call.result) = Len(SOLAR_PANELS)
        /\ \A i \in 1..Len(SOLAR_PANELS) :
            LET count == call.result[i].number_of_panels
                watts == SOLAR_PANELS[i].watts
                kwp == call.required_kwp
            IN  /\ call.result[i].panel_type = SOLAR_PANELS[i].name
                /\ count \in Nat
                /\ count * watts * kwp.d >= 1000 * kwp.n
                /\ count > 0 => (count - 1) * watts * kwp.d < 1000 * kwp.n
                /\ kwp.n > 0 => count >= 1
                /\ (kwp = RatInt(2) /\ watts = 400) => count = 5

C2_Witness ==
    /\ call.fn = "recommend_panels"
    /\ call.required_kwp = RatInt(2)
    /\ call.result[2].number_of_panels = 5
    /\ call.result[1].number_of_panels = 7

\* C3: calculate_solar_system uses the irradiance stored for the location, or
\* 5.0 when the location is not in the city table, and returns required_kwp =
\* daily_kwh / (irradiance x 0.85), battery_kwh = daily_kwh x autonomy_days and
\* the irradiance used; daily_kwh 10, irradiance 5.0, autonomy 2 gives
\* battery_kwh 20 and required_kwp 10 / 4.25.
C3_SolarSystemFormula ==
    call.fn = "calculate_solar_system" =>
        LET irr == call.result.solar_irradiance
            kwp == call.result.required_kwp
            bat == call.result.battery_kwh
            kwh == call.daily_kwh
        IN  /\ call.location \in DOMAIN NIGERIAN_CITIES
                   => irr = NIGERIAN_CITIES[call.location]
            /\ call.location \notin DOMAIN NIGERIAN_CITIES => irr = RatInt(5)
            /\ kwp.d > 0 /\ bat.d > 0 /\ kwp.n >= 0 /\ bat.n >= 0
            /\ kwp.n * irr.n * 85 * kwh.d = kwh.n * kwp.d * irr.d * 100
            /\ bat.n * kwh.d = kwh.n * call.autonomy_days * bat.d
            /\ (kwh = RatInt(10) /\ irr = RatInt(5) /\ call.autonomy_days = 2)
                   => (bat = RatInt(20) /\ kwp = Rat(1000, 425))

C3_Witness ==
    /\ call.fn = "calculate_solar_system"
    /\ call.location = "Atlantis"
    /\ call.daily_kwh = RatInt(10)
    /\ call.autonomy_days = 2
    /\ call.result.battery_kwh = RatInt(20)
    /\ call.result.required_kwp = Rat(40, 17)

\* the k-th smallest element of a set of indices
KthOf(M, k) == CHOOSE i \in M : Cardinality({j \in M : j <= i}) = k

\* C7: vendor lookup returns exactly the vendors stored for the city whose
\* specialty equals the filter (all of them for "All"), in the order of the
\* table; a city with no entry in the table yields an empty result.
C7_VendorLookup ==
    call.fn = "find_vendors" =>
        LET stored == IF call.city \in DOMAIN VENDORS THEN VENDORS[call.city]
                      ELSE <<>>
            M == {i \in 1..Len(stored) :
                     call.filter = "All" \/ stored[i].speciality = call.filter}
        IN  /\ Len(call.result) = Cardinality(M)
            /\ \A k \in 1..Len(call.result) : call.result[k] = stored[KthOf(M, k)]
            /\ call.city \notin DOMAIN VENDORS => call.result = <<>>

C7_Witness ==
    /\ call.fn = "find_vendors"
    /\ call.city = "Kano"
    /\ call.filter = "Residential"
    /\ Len(call.result) = 1
    /\ call.result[1].name = "Sahel Power"

\* the entries a scenario with the priority set T covers
Covered(items, T) ==
    {i \in 1..Len(items) : /\ items[i].priority \in T
                           /\ items[i].priority # "Remove"
                           /\ items[i].quantity > 0}

Tiers == << {"High"}, {"High", "Medium"}, {"High", "Medium", "Low"} >>

TierNames == << "Essential Only (High Priority)",
                "Essential + Important (High + Medium)",
                "All Appliances" >>

TierOf(scenario_name) == CHOOSE k \in 1..3 : TierNames[k] = scenario_name

Reported(k) == {j \in 1..Len(results) : results[j].scenario = TierNames[k]}

OptimizationShown == page = "Load Optimization" /\ outcome = "ok"

\* C4: for a fixed working set the daily_kwh reported for "All Appliances" is
\* >= that of "Essential + Important (High + Medium)", which is >= that of
\* "Essential Only (High Priority)"; each scenario covers the entries with
\* priority in its set, priority # "Remove" and quantity > 0.
C4_ScenarioOrdering ==
    OptimizationShown =>
        /\ \A k \in 1..3 :
            /\ Cardinality(Reported(k)) =
                   (IF Covered(appliances_data, Tiers[k]) = {} THEN 0 ELSE 1)
            /\ \A j \in Reported(k) :
                   results[j].daily_kwh =
                       Round2(SumKwh(appliances_data,
                                     Covered(appliances_data, Tiers[k])))
        /\ \A j1, j2 \in 1..Len(results) :
               TierOf(results[j1].scenario) <= TierOf(results[j2].scenario)
                   => RatLeq(results[j1].daily_kwh, results[j2].daily_kwh)

C4_Witness ==
    /\ OptimizationShown
    /\ Len(results) = 3
    /\ results[1].scenario = "Essential Only (High Priority)"
    /\ results[3].scenario = "All Appliances"
    /\ RatLt(results[1].daily_kwh, results[3].daily_kwh)
    /\ \E i \in 1..Len(appliances_data) : appliances_data[i].priority = "Low"

\* the cost the claim states, from the scenario's required_kwp and battery_kwh
StatedCost(required_kwp, battery_kwh) ==
    RatAdd(RatAdd(RatAdd(RatMul(required_kwp, RatInt(300000)),
                         RatMul(required_kwp, RatInt(200000))),
                  RatMul(battery_kwh, RatInt(150000))),
           RatMul(Rat(3, 10), RatMul(required_kwp, RatInt(300000))))

StatedCostOf(k) ==
    LET sys == calculate_solar_system(
                   SumKwh(appliances_data, Covered(appliances_data, Tiers[k])),
                   "Lagos", 2)
    IN  StatedCost(sys.required_kwp, sys.battery_kwh)

\* C5: for each scenario evaluated, total cost = required_kwp x 300000 +
\* required_kwp x 200000 + battery_kwh x 150000 + 0.3 x (required_kwp x 300000),
\* and the scenario is marked within budget iff that total <= max_budget.
C5_CostAndBudget ==
    OptimizationShown =>
        \A j \in 1..Len(results) :
            LET total == StatedCostOf(TierOf(results[j].scenario))
            IN  /\ results[j].est_cost = FormatNaira(total)
                /\ results[j].within_budget <=> RatLeq(total, RatInt(max_budget))

C5_Witness ==
    /\ OptimizationShown
    /\ \E j1, j2 \in 1..Len(results) :
           /\ results[j1].within_budget
           /\ ~results[j2].within_budget
           /\ results[j1].est_cost # <<"N", "0">>

\* C6: the page recommends a scenario iff at least one scenario fits the
\* budget, and the recommended scenario is a fitting one whose daily_kwh is the
\* maximum over the fitting scenarios.
C6_Recommendation ==
    OptimizationShown =>
        /\ Len(best_scenario) = (IF \E j \in 1..Len(results) : results[j].within_budget
                                 THEN 1 ELSE 0)
        /\ \A b \in 1..Len(best_scenario) :
            /\ \E j \in 1..Len(results) :
                   results[j] = best_scenario[b] /\ results[j].within_budget
            /\ \A j \in 1..Len(results) :
                   results[j].within_budget
                       => RatLeq(results[j].daily_kwh, best_scenario[b].daily_kwh)

C6_Witness ==
    /\ OptimizationShown
    /\ Len(best_scenario) = 1
    /\ Len(results) = 3
    /\ results[1].within_budget
    /\ best_scenario[1] = results[3]
    /\ RatLt(results[1].daily_kwh, best_scenario[1].daily_kwh)

QuantityZeroed(items, i) == [items EXCEPT ![i].quantity = 0]

Without(items, i) == SubSeq(items, 1, i - 1) \o SubSeq(items, i + 1, Len(items))

DailyKwh(items) == calculate_daily_consumption(items).total_kwh

C9_PriorityIsHighMediumLow ==
    \A i \in 1..Len(appliances_data) :
        appliances_data[i].priority \in {"High", "Medium", "Low"}

ZeroDemand(items) ==
    \A i \in 1..Len(items) : items[i].quantity = 0 \/ IsZero(items[i].hours)

\* C10: when sizing or optimization is requested for a working set whose
\* demand is zero (no appliances, or every entry with quantity 0 or hours 0),
\* the page produces a zero-demand result (required_kwp = 0, battery_kwh = 0,
\* every panel_count = 0) and finishes its computation, cost and payback
\* included, without raising an error.
C10_ZeroDemandIsWellDefined ==
    ZeroDemand(appliances_data) =>
        /\ page \in {"Solar Sizing", "Load Optimization"} => outcome = "ok"
        /\ page = "Solar Sizing" =>
            /\ Len(sizing) = 1
            /\ \A k \in 1..Len(sizing) :
                /\ IsZero(sizing[k].required_kwp)
                /\ IsZero(sizing[k].battery_kwh)
                /\ \A i \in 1..Len(sizing[k].recommendations) :
                       sizing[k].recommendations[i].number_of_panels = 0
                /\ "payback_months" \in DOMAIN sizing[k]

EntryNames == CatalogInputs \cup (CustomNameInputs \ {""})

\* an add action for the name: choosing it in the multiselect, or submitting
\* the custom form with it
AddAction(nm) ==
    \/ nm \in CatalogInputs /\ SelectAppliance(nm)
    \/ \E p \in CustomPowerInputs, h \in CustomHoursInputs,
          pr \in CustomPriorityInputs : SubmitCustom(nm, p, h, pr)

\* C11: an entry leaves the working set only through an explicit remove; when
\* the user removes an entry it is absent from the working set after the
\* rerun the button starts, and an absent entry comes back only through a new
\* add action for its name.
C11_RemovedStaysAbsent ==
    [][\A nm \in EntryNames :
          /\ HasName(appliances_data, nm) /\ ~HasName(appliances_data', nm)
                 => Remove(nm)
          /\ Remove(nm) => ~HasName(appliances_data', nm)
          /\ ~HasName(appliances_data, nm) /\ HasName(appliances_data', nm)
                 => AddAction(nm)]_vars

EntryOf(data, nm) == data[CHOOSE i \in 1..Len(data) : data[i].name = nm]

UniqueNames(data) ==
    \A i, j \in 1..Len(data) : data[i].name = data[j].name => i = j

====
